---- MODULE Spec2Model ----
(***************************************************************************)
(* A model of the real-time core of BayesianMIDI:                          *)
(*   - MidiScheduler (src/MidiScheduler.py): immediate note-on, deferred   *)
(*     note-off through a heap and one worker thread          (SchedSpec)  *)
(*   - the input buffer shared by the MIDI listener and the clock loop     *)
(*     (src/main.py)                                          (BufferSpec) *)
(*   - TempoEngine (src/tempo_engine.py)                      (TempoSpec)  *)
(*   - MidiScheduler with two ports, stop() and the worker's dispatch      *)
(*     statement by statement                                 (WorkerSpec) *)
(*   - the clock loop run_clock under the user's toggles and selections,   *)
(*     and the lines of process_bayesian_step that act on a decision       *)
(*     (src/main.py)                                          (ClockSpec)  *)
(*   - the evidence built by process_bayesian_step            (StepSpec)   *)
(*   - BakedBayesianGenerator (src/bayesian/bayesian_network_ag_baked.py): *)
(*     the baking of the lookup table, iteration by iteration (BakeSpec),  *)
(*     infer on the baked table (BakedSpec) and on stored distributions    *)
(*     of any shape                                           (QuerySpec)  *)
(*   - the arithmetic from the tick counter to the step of the evidence,   *)
(*     tick after tick                                    (StepCycleSpec)  *)
(*   - the per-note threads of the application's play_note    (NoteSpec)   *)
(*   - the output selector, statement by statement, with the per-note      *)
(*     threads                                                (PortSpec)   *)
(* Times are integers (one unit is one step of the model's clock); the     *)
(* floating-point rounding of the Python clocks is not modelled.           *)
(***************************************************************************)
EXTENDS Integers, Sequences, FiniteSets, TLC

VARIABLES
    now,            \* SchedSpec/TempoSpec: the clock read by time.time() / time.perf_counter()
    queue,          \* MidiScheduler._queue: the heap list of (off_time, msg_off)
    active,         \* MidiScheduler._active
    output_port,    \* MidiScheduler.output_port
    lock,           \* owner of MidiScheduler._condition's lock, or "free"
    wpc,            \* worker thread: position in _process_queue
    wlocal,         \* worker thread: the time at which its timed wait expires
    cpc,            \* caller threads: position in play_note
    cur,            \* caller threads: the locals of the play_note call in progress
    calls,          \* every play_note call made so far: how it ended
    sent,           \* the output sinks: every message received, in order, with the time of
                    \* receipt, the sending thread, and the call's duration / the entry's off_time
    stoppc,         \* the thread calling stop(): position in stop
    port_set,       \* the argument of the last set_port call that has returned
    midi_buffer,    \* BayesianMidiPerformer.midi_buffer
    clock_running,  \* BayesianMidiPerformer.clock_running
    lpc,            \* MIDI listener thread: position in its note_on handling
    lev,            \* MIDI listener thread: the event it is handing over
    tpc,            \* clock loop: position in the tick branch of run_clock
    recent_events,  \* clock loop: the local recent_events
    drains,         \* every recent_events handed to process_bayesian_step, in order
    recorded,       \* number of input events appended so far
    bpm,            \* TempoEngine.bpm
    interval,       \* TempoEngine.interval
    last_tick_time, \* TempoEngine.last_tick_time
    step_counter,   \* TempoEngine.step_counter
    tick_log,       \* the check_tick calls since construction: result and clock readings
    current_output_port, \* BayesianMidiPerformer.current_output_port
    step_call,      \* the last process_bayesian_step call: its arguments and what lines 192-214 did
    act_log,        \* the last pass through lines 216-227: the decision and what was done with it
    port_closed,    \* whether the port object current_output_port holds has been closed
    runs,           \* how often the performance has been started: 0, 1, or 2 for "more than once"
    lookup_table,   \* BakedBayesianGenerator._lookup_table
    bake_i,         \* _bake_logic: the number of iterations of the innermost loop done
    query,          \* the last infer call: its evidence, key and fetched entry, and how it ended
    note_threads    \* the worker threads of BayesianMidiPerformer.play_note, in the order of the calls

schedVars == <<queue, active, output_port, lock, wpc, wlocal, cpc, cur, calls, sent, stoppc,
               port_set>>
bufVars   == <<midi_buffer, clock_running, lpc, lev, tpc, recent_events, drains, recorded>>
tempoVars == <<bpm, interval, last_tick_time, step_counter, tick_log>>
perfVars  == <<current_output_port, port_closed, step_call, act_log, runs>>
bakedVars == <<lookup_table, bake_i, query>>
vars      == <<now, schedVars, bufVars, tempoVars, perfVars, bakedVars, note_threads>>

\* ---------------------------------------------------------------- bounds
MaxTime   == 3      \* the clock stops advancing here
MaxCalls  == 2      \* play_note calls per behaviour
MaxEvents == 3      \* input events appended per behaviour
MaxTicks  == 3      \* ticks of the clock loop per behaviour
MaxClock  == 8      \* TempoSpec: the clock stops advancing here
MaxSteps  == 5      \* TempoSpec: check_tick is not called beyond this tick counter
MaxCounter == 40    \* StepCycleSpec: the tick counter stops here

\* ---------------------------------------------------------------- MidiScheduler
None    == "None"
Ports   == {"P1"}
Callers == {"c1"}
Notes   == {60, 64}
Channels == {1}
Durations == {1, 2}

\* mido.Message('note_on' | 'note_off', note, velocity, channel - 1); the model
\* keeps the fields that identify the message, and the call it belongs to.
Msg(type, note, channel, id) == [type |-> type, note |-> note, channel |-> channel - 1, id |-> id]

\* mido's Message.__eq__: same type and same fields (the call id is not a field).
MsgEq(a, b) == a.type = b.type /\ a.note = b.note /\ a.channel = b.channel

\* Python compares the tuples (off_time, msg) of the heap: the first differing
\* component decides, and mido messages have no ordering, so comparing two
\* tuples with equal times and different messages raises TypeError.
TupleLtRaises(a, b) == a.due = b.due /\ ~MsgEq(a.msg, b.msg)
TupleLt(a, b) == a.due < b.due

Swap(h, i, j) == [h EXCEPT ![i] = h[j], ![j] = h[i]]

\* heapq's _siftdown (positions are 0-based, as in heapq; h[pos + 1] is heap[pos]).
RECURSIVE SiftDown(_, _, _)
SiftDown(h, startpos, pos) ==
    IF pos <= startpos THEN [h |-> h, err |-> FALSE]
    ELSE LET parentpos == (pos - 1) \div 2
             newitem   == h[pos + 1]
             parent    == h[parentpos + 1]
         IN  IF TupleLtRaises(newitem, parent) THEN [h |-> h, err |-> TRUE]
             ELSE IF TupleLt(newitem, parent)
                  THEN SiftDown(Swap(h, pos + 1, parentpos + 1), startpos, parentpos)
                  ELSE [h |-> h, err |-> FALSE]

\* heapq's _siftup: bubble the smaller child up to a leaf, then sift down.
RECURSIVE SiftUp(_, _, _)
SiftUp(h, startpos, pos) ==
    LET endpos == Len(h)
        limit  == endpos \div 2
    IN  IF pos >= limit THEN SiftDown(h, startpos, pos)
        ELSE LET left  == 2 * pos + 1
                 right == left + 1
             IN  IF right < endpos /\ TupleLtRaises(h[left + 1], h[right + 1])
                 THEN [h |-> h, err |-> TRUE]
                 ELSE LET childpos == IF right < endpos /\ ~TupleLt(h[left + 1], h[right + 1])
                                      THEN right ELSE left
                      IN  SiftUp(Swap(h, pos + 1, childpos + 1), startpos, childpos)

HeapPushAppendOnly(h, item) == [h |-> Append(h, item), err |-> FALSE]

\* heapq.heappush(heap, item): append, then sift the new item towards the root.
HeapPush(h, item) == SiftDown(Append(h, item), 0, Len(h))

HeapPopKeeps(h) == [item |-> h[1], h |-> h, err |-> FALSE]

\* heapq.heappop(heap): the root is returned, the last item replaces it and is sifted.
HeapPop(h) ==
    LET n       == Len(h)
        lastelt == h[n]
        rest    == SubSeq(h, 1, n - 1)
    IN  IF n = 1 THEN [item |-> lastelt, h |-> <<>>, err |-> FALSE]
        ELSE LET r == SiftUp([rest EXCEPT ![1] = lastelt], 0, 0)
             IN  [item |-> h[1], h |-> r.h, err |-> r.err]

\* off_time = time.time() + duration
DueTime(t, duration) == t + duration

IsDueAlways(next_time, t) == TRUE

\* next_time <= now
IsDue(next_time, t) == next_time <= t

NotifyLost(pc) == pc

\* Condition.notify(): a thread waiting on the condition is woken; it has to
\* take the lock again before wait() returns.
Notify(pc) == IF pc \in {"wait", "timedwait"} THEN "woken" ELSE pc

SinkDropsMessage(log, m) == log

\* port.send(msg): the sink receives the message.
Send(log, m) == Append(log, m)

NoLocal == [deadline |-> 0]
NoCall  == [id |-> 0, note |-> 0, channel |-> 0, duration |-> 0, off_time |-> 0]

SchedInit ==
    /\ queue = <<>>
    /\ active = TRUE
    /\ output_port = None
    /\ lock = "free"
    /\ wpc = "while"
    /\ wlocal = NoLocal
    /\ cpc = [c \in Callers |-> "idle"]
    /\ cur = [c \in Callers |-> NoCall]
    /\ calls = <<>>
    /\ sent = <<>>
    /\ stoppc = "idle"
    /\ port_set = None

\* Time passes.
Tick ==
    /\ now < MaxTime
    /\ now' = now + 1

SetPortNoLock(p) ==
    /\ p # output_port
    /\ output_port' = p
    /\ port_set' = p
    /\ UNCHANGED <<now, queue, active, lock, wpc, wlocal, cpc, cur, calls, sent, stoppc>>

SetPortOnlyFirst(p) ==
    /\ lock = "free"
    /\ p # port_set
    /\ output_port' = IF output_port = None THEN p ELSE output_port
    /\ port_set' = p
    /\ UNCHANGED <<now, queue, active, lock, wpc, wlocal, cpc, cur, calls, sent, stoppc>>

\* set_port(port): with self._condition: self.output_port = port
SetPort(p) ==
    /\ lock = "free"
    /\ p # output_port
    /\ output_port' = p
    /\ port_set' = p
    /\ UNCHANGED <<now, queue, active, lock, wpc, wlocal, cpc, cur, calls, sent, stoppc>>

\* play_note, line 28: if not self.output_port: return
PlayNoteTest(c, note, channel, duration) ==
    /\ cpc[c] = "idle"
    /\ Len(calls) < MaxCalls
    /\ LET id == Len(calls) + 1
       IN  IF output_port = None
           THEN /\ calls' = Append(calls, "noport")
                /\ UNCHANGED <<cpc, cur>>
           ELSE /\ calls' = Append(calls, "running")
                /\ cpc' = [cpc EXCEPT ![c] = "send_on"]
                /\ cur' = [cur EXCEPT ![c] = [id |-> id, note |-> note, channel |-> channel,
                                              duration |-> duration, off_time |-> 0]]
    /\ UNCHANGED <<now, queue, active, output_port, lock, wpc, wlocal, sent, stoppc>>

\* play_note, lines 35-41: self.output_port.send(msg_on), then
\* off_time = time.time() + duration. The attribute is read again: if
\* set_port(None) ran since the test, None.send raises AttributeError.
PlayNoteSendOn(c) ==
    /\ cpc[c] = "send_on"
    /\ IF output_port = None
       THEN /\ calls' = [calls EXCEPT ![cur[c].id] = "attrerror"]
            /\ cpc' = [cpc EXCEPT ![c] = "idle"]
            /\ cur' = [cur EXCEPT ![c] = NoCall]
            /\ sent' = sent
       ELSE /\ sent' = Send(sent, [port |-> output_port,
                                   msg |-> Msg("note_on", cur[c].note, cur[c].channel, cur[c].id),
                                   at |-> now, by |-> c,
                                   duration |-> cur[c].duration, due |-> 0])
            /\ cur' = [cur EXCEPT ![c].off_time = DueTime(now, cur[c].duration)]
            /\ calls' = calls
            /\ cpc' = [cpc EXCEPT ![c] = "push"]
    /\ UNCHANGED <<now, queue, active, output_port, lock, wpc, wlocal, stoppc>>

\* play_note, lines 43-47: with self._condition: heappush; notify. A TypeError
\* raised by heappush leaves the with block before notify() is reached.
PlayNotePush(c) ==
    /\ cpc[c] = "push"
    /\ lock = "free"
    /\ LET item == [due |-> cur[c].off_time,
                    msg |-> Msg("note_off", cur[c].note, cur[c].channel, cur[c].id)]
           r == HeapPush(queue, item)
       IN  /\ queue' = r.h
           /\ IF r.err
              THEN /\ calls' = [calls EXCEPT ![cur[c].id] = "typeerror"]
                   /\ wpc' = wpc
              ELSE /\ calls' = [calls EXCEPT ![cur[c].id] = "returned"]
                   /\ wpc' = Notify(wpc)
    /\ cpc' = [cpc EXCEPT ![c] = "idle"]
    /\ cur' = [cur EXCEPT ![c] = NoCall]
    /\ UNCHANGED <<now, active, output_port, lock, wlocal, sent, stoppc>>

\* _process_queue, line 51: while self._active
WorkerWhile ==
    /\ wpc = "while"
    /\ wpc' = IF active THEN "with" ELSE "done"
    /\ UNCHANGED <<now, queue, active, output_port, lock, wlocal, cpc, cur, calls, sent, stoppc>>

\* _process_queue, line 52: with self._condition
WorkerWith ==
    /\ wpc = "with"
    /\ lock = "free"
    /\ lock' = "worker"
    /\ wpc' = "body"
    /\ UNCHANGED <<now, queue, active, output_port, wlocal, cpc, cur, calls, sent, stoppc>>

\* _process_queue, lines 53-68, under the lock: an empty queue waits for a
\* notify; a due entry is popped and sent if a port is set (a TypeError raised
\* by heappop ends the thread); otherwise the worker waits for next_time - now.
\* Both waits release the lock.
WorkerBody ==
    /\ wpc = "body"
    /\ lock = "worker"
    /\ IF queue = <<>>
       THEN /\ wpc' = "wait"
            /\ UNCHANGED <<queue, sent, wlocal>>
       ELSE LET next_time == queue[1].due
            IN  IF IsDue(next_time, now)
                THEN LET r == HeapPop(queue)
                     IN  /\ queue' = r.h
                         /\ wpc' = IF r.err THEN "crashed" ELSE "while"
                         /\ sent' = IF ~r.err /\ output_port # None
                                    THEN Send(sent, [port |-> output_port, msg |-> r.item.msg,
                                                     at |-> now, by |-> "worker",
                                                     duration |-> 0, due |-> r.item.due])
                                    ELSE sent
                         /\ wlocal' = wlocal
                ELSE /\ wpc' = "timedwait"
                     /\ wlocal' = [deadline |-> next_time]
                     /\ UNCHANGED <<queue, sent>>
    /\ lock' = "free"
    /\ UNCHANGED <<now, active, output_port, cpc, cur, calls, stoppc>>

\* Condition.wait(timeout): the timeout expires.
WorkerTimeout ==
    /\ wpc = "timedwait"
    /\ now >= wlocal.deadline
    /\ wpc' = "woken"
    /\ UNCHANGED <<now, queue, active, output_port, lock, wlocal, cpc, cur, calls, sent, stoppc>>

\* wait() returns once the lock is taken again; the with block ends there and
\* releases it.
WorkerWoken ==
    /\ wpc = "woken"
    /\ lock = "free"
    /\ wpc' = "while"
    /\ wlocal' = NoLocal
    /\ UNCHANGED <<now, queue, active, output_port, lock, cpc, cur, calls, sent, stoppc>>

\* stop(), line 71: self._active = False
StopFlag ==
    /\ stoppc = "idle"
    /\ active' = FALSE
    /\ stoppc' = "notify"
    /\ UNCHANGED <<now, queue, output_port, lock, wpc, wlocal, cpc, cur, calls, sent>>

\* stop(), lines 72-73: with self._condition: self._condition.notify()
StopNotify ==
    /\ stoppc = "notify"
    /\ lock = "free"
    /\ wpc' = Notify(wpc)
    /\ stoppc' = "done"
    /\ UNCHANGED <<now, queue, active, output_port, lock, wlocal, cpc, cur, calls, sent>>

\* The worker's dispatch statement by statement, for the claims on what
\* set_port and stop() can do between two statements of the worker. WorkerBody
\* above is WorkerInspect, WorkerTestPort and WorkerSend in one step.
TwoPorts == {"P1", "P2"}

\* _process_queue, lines 53-63 and 66-68, under the lock: as WorkerBody, but a
\* popped entry is kept in the local msg and the lock stays held.
WorkerInspect ==
    /\ wpc = "body"
    /\ lock = "worker"
    /\ IF queue = <<>>
       THEN /\ wpc' = "wait"
            /\ lock' = "free"
            /\ UNCHANGED <<queue, wlocal>>
       ELSE LET next_time == queue[1].due
            IN  IF IsDue(next_time, now)
                THEN LET r == HeapPop(queue)
                     IN  /\ queue' = r.h
                         /\ IF r.err
                            THEN /\ wpc' = "crashed"
                                 /\ lock' = "free"
                                 /\ wlocal' = wlocal
                            ELSE /\ wpc' = "test"
                                 /\ lock' = lock
                                 /\ wlocal' = [deadline |-> 0, item |-> r.item, tested |-> None]
                ELSE /\ wpc' = "timedwait"
                     /\ wlocal' = [deadline |-> next_time]
                     /\ lock' = "free"
                     /\ queue' = queue
    /\ UNCHANGED <<now, active, output_port, cpc, cur, calls, sent, stoppc>>

\* _process_queue, line 64: if self.output_port; without a port the entry is
\* dropped and the with block ends.
WorkerTestPort ==
    /\ wpc = "test"
    /\ IF output_port # None
       THEN /\ wpc' = "send"
            /\ wlocal' = [wlocal EXCEPT !.tested = output_port]
            /\ lock' = lock
       ELSE /\ wpc' = "while"
            /\ wlocal' = NoLocal
            /\ lock' = "free"
    /\ UNCHANGED <<now, queue, active, output_port, cpc, cur, calls, sent, stoppc>>

\* _process_queue, line 65: self.output_port.send(msg); the attribute is read
\* again (None.send raises AttributeError and ends the thread). The with block
\* ends and releases the lock.
WorkerSend ==
    /\ wpc = "send"
    /\ IF output_port = None
       THEN /\ wpc' = "crashed"
            /\ sent' = sent
       ELSE /\ wpc' = "while"
            /\ sent' = Send(sent, [port |-> output_port, msg |-> wlocal.item.msg,
                                   at |-> now, by |-> "worker",
                                   duration |-> 0, due |-> wlocal.item.due])
    /\ wlocal' = NoLocal
    /\ lock' = "free"
    /\ UNCHANGED <<now, queue, active, output_port, cpc, cur, calls, stoppc>>

\* ---------------------------------------------------------------- TempoEngine
\* One unit of the clock is 1/16 s, so that the intervals of the tempos used
\* are whole numbers: 2 units at 120 bpm, 3 units at 80 bpm.
UnitsPerMinute == 960
steps_per_beat == 4
BpmInputs == {80, 120, 0, -120}

\* (60.0 / bpm) / steps_per_beat, for bpm # 0
IntervalOf(b) ==
    IF b > 0 THEN (UnitsPerMinute \div b) \div steps_per_beat
             ELSE -((UnitsPerMinute \div (-b)) \div steps_per_beat)

\* tick_log records, for the claims, what the calls on the engine did: the
\* result of check_tick if it was the last call ("none" otherwise), the clock
\* reading of that call, the reading and lateness of the last True return, the
\* time between the last two True returns, the time of the last reset, and
\* whether the interval has been the same since then.
NoTicks(t) == [result |-> "none", at |-> t, fired |-> -1, late |-> 0, gap |-> -1,
               reset_at |-> t, fixed_rate |-> TRUE]

\* TempoEngine.__init__(bpm=120)
TempoInit ==
    /\ bpm = 120
    /\ interval = IntervalOf(120)
    /\ last_tick_time = 0
    /\ step_counter = 0
    /\ tick_log = NoTicks(0)

\* set_bpm(new_bpm): bpm is assigned first; 60.0 / 0 raises ZeroDivisionError
\* and leaves the interval as it was.
SetBpm(new_bpm) ==
    /\ bpm' = new_bpm
    /\ interval' = IF new_bpm = 0 THEN interval ELSE IntervalOf(new_bpm)
    /\ tick_log' = [tick_log EXCEPT !.result = "none",
                                    !.fixed_rate = tick_log.fixed_rate /\ interval' = interval]
    /\ UNCHANGED <<now, last_tick_time, step_counter>>

ElapsedAlways(t, last, iv) == TRUE

\* now - self.last_tick_time >= self.interval
IntervalElapsed(t, last, iv) == t - last >= iv

RebaseToNow(last, iv, t) == t

\* self.last_tick_time += self.interval
Rebase(last, iv, t) == last + iv

\* check_tick()
CheckTick ==
    /\ step_counter < MaxSteps
    /\ IF IntervalElapsed(now, last_tick_time, interval)
       THEN /\ last_tick_time' = Rebase(last_tick_time, interval, now)
            /\ step_counter' = step_counter + 1
            /\ tick_log' = [tick_log EXCEPT
                               !.result = "true", !.at = now, !.fired = now,
                               !.late = now - last_tick_time',
                               !.gap = IF tick_log.fired = -1 THEN -1 ELSE now - tick_log.fired]
       ELSE /\ UNCHANGED <<last_tick_time, step_counter>>
            /\ tick_log' = [tick_log EXCEPT !.result = "false", !.at = now]
    /\ UNCHANGED <<now, bpm, interval>>

ResetCounterOnly ==
    /\ step_counter' = 0
    /\ last_tick_time' = last_tick_time
    /\ tick_log' = [NoTicks(now) EXCEPT !.fixed_rate = TRUE]

\* reset(): step_counter = 0; last_tick_time = time.perf_counter()
Reset ==
    /\ step_counter' = 0
    /\ last_tick_time' = now
    /\ tick_log' = [NoTicks(now) EXCEPT !.fixed_rate = TRUE]

\* Time passes on the engine's clock.
TempoTick ==
    /\ now < MaxClock
    /\ now' = now + 1

\* ---------------------------------------------------------------- input buffer
\* The MIDI listener thread hands every note_on to the main thread, which
\* appends it to midi_buffer; the clock loop thread, in the tick branch of
\* run_clock, copies the buffer and then clears it. BufferSpec lets a tick
\* happen at any moment of a running performance and follows these statements.
Drums      == {"KICK", "SNARE"}
Velocities == {80, 100}
NoEvent    == [drum |-> "NONE", velocity |-> 0]

BufInit ==
    /\ midi_buffer = <<>>
    /\ clock_running = FALSE
    /\ lpc = "idle"
    /\ lev = NoEvent
    /\ tpc = "poll"
    /\ recent_events = <<>>
    /\ drains = <<>>
    /\ recorded = 0

\* action_toggle_play: clock_running is flipped; on a start the clock is reset.
TogglePlay ==
    /\ clock_running' = ~clock_running
    /\ IF clock_running' THEN Reset ELSE UNCHANGED <<step_counter, last_tick_time, tick_log>>
    /\ runs' = IF clock_running' /\ runs < 2 THEN runs + 1 ELSE runs
    /\ UNCHANGED <<now, midi_buffer, lpc, lev, tpc, recent_events, drains, recorded,
                   bpm, interval, current_output_port, port_closed, step_call, act_log>>

\* start_midi_listener, lines 162-171: a note_on arrives; if the clock is
\* running the listener asks the main thread to append (note_type, velocity)
\* and waits for it (call_from_thread).
ListenerNoteOn(drum, velocity) ==
    /\ lpc = "idle"
    /\ clock_running
    /\ recorded + 1 <= MaxEvents
    /\ lpc' = "append"
    /\ lev' = [drum |-> drum, velocity |-> velocity]
    /\ UNCHANGED <<now, midi_buffer, clock_running, tpc, recent_events, drains, recorded>>

BufferPrepend(buf, e) == <<e>> \o buf

\* list.append
BufferAppend(buf, e) == Append(buf, e)

\* line 171, on the main thread: self.app.midi_buffer.append((note_type, msg.velocity)).
\* For the claims the event also carries its number and the number of the run
\* (the count of starts so far) in which it is appended.
MainAppend ==
    /\ lpc = "append"
    /\ midi_buffer' = BufferAppend(midi_buffer, [id |-> recorded + 1, drum |-> lev.drum,
                                                 velocity |-> lev.velocity, run |-> runs])
    /\ recorded' = recorded + 1
    /\ lpc' = "idle"
    /\ lev' = NoEvent
    /\ UNCHANGED <<now, clock_running, tpc, recent_events, drains>>

\* run_clock, line 142, in the tick branch: recent_events = self.midi_buffer[:]
ClockCopy ==
    /\ tpc = "poll"
    /\ clock_running
    /\ Len(drains) < MaxTicks
    /\ recent_events' = midi_buffer
    /\ tpc' = "clear"
    /\ UNCHANGED <<now, midi_buffer, clock_running, lpc, lev, drains, recorded>>

\* run_clock, lines 143-145: self.midi_buffer.clear(), then recent_events is
\* handed to process_bayesian_step.
ClockClear ==
    /\ tpc = "clear"
    /\ midi_buffer' = <<>>
    /\ drains' = Append(drains, recent_events)
    /\ recent_events' = <<>>
    /\ tpc' = "poll"
    /\ UNCHANGED <<now, clock_running, lpc, lev, recorded>>

\* ---------------------------------------------------------------- the performance
\* run_clock and process_bayesian_step of src/main.py. ClockSpec follows the
\* clock loop under the user's toggles and selections; the lines of
\* process_bayesian_step that build the evidence (192-214) and that act on the
\* decision (216-227) are applied to any arguments and to any decision.
NoStep == [status |-> "none", events |-> <<>>]
NoAct  == [status |-> "none"]

\* The attributes of a TempoEngine object: those __init__ assigns, nothing else
\* adds one. Reading any other attribute raises AttributeError.
EngineAttrs == {"bpm", "steps_per_beat", "interval", "last_tick_time", "step_counter"}
HasAttr(a) == a \in EngineAttrs

\* run_clock, line 137: beat = ((steps // 4) % 4) + 1
BeatOf(steps) == ((steps \div 4) % 4) + 1

\* run_clock, line 138: sub = steps % 4
SubOf(steps) == steps % 4

CurrentStepBeatFromOne(beat, sub) == (beat * 4) + sub + 1

\* process_bayesian_step, line 207: current_step = ((beat - 1) * 4) + sub + 1
CurrentStep(beat, sub) == ((beat - 1) * 4) + sub + 1

\* process_bayesian_step, lines 195-203: dominant_drum and max_velocity start
\* as NONE and 0; an event replaces them when its velocity is greater.
RECURSIVE Dominant(_, _)
Dominant(events, acc) ==
    IF events = <<>> THEN acc
    ELSE LET e == Head(events)
         IN  Dominant(Tail(events),
                      IF e.velocity > acc.velocity
                      THEN [drum |-> e.drum, velocity |-> e.velocity]
                      ELSE acc)

DominantInput(events) == Dominant(events, [drum |-> "NONE", velocity |-> 0])

\* The tempos offered by the bpm selector that the model uses, and the events
\* and argument lists given to process_bayesian_step (a note_on may carry
\* velocity 0).
UiBpm          == {80, 120}
StepVelocities == {0, 100}
StepEvents     == [drum : Drums, velocity : StepVelocities]
RECURSIVE ListsUpTo(_)
ListsUpTo(n) ==
    IF n = 0 THEN {<<>>}
    ELSE LET shorter == ListsUpTo(n - 1)
         IN  shorter \cup {Append(l, e) : l \in {x \in shorter : Len(x) = n - 1}, e \in StepEvents}
EventLists == ListsUpTo(MaxEvents)
Beats == 1..4
Subs  == 0..3

PerfInit ==
    /\ current_output_port = None
    /\ port_closed = FALSE
    /\ step_call = NoStep
    /\ act_log = NoAct
    /\ runs = 0

\* run_clock, line 134, left operand of the `and`: the clock thread reads
\* self.clock_running. If it is False the turn ends in the sleep of line 147
\* and changes nothing; if it is True the thread goes on to call check_tick.
\* action_toggle_play runs on the main thread and can run between the two.
ClockTest ==
    /\ tpc = "poll"
    /\ clock_running
    /\ tpc' = "check"
    /\ UNCHANGED <<midi_buffer, clock_running, lpc, lev, recent_events, drains, recorded>>

\* run_clock, lines 134-136, right operand of the `and` and the tick branch:
\* check_tick is called; when it returns True, line 136 reads
\* self.tempo_engine.step_count, which no TempoEngine has: the AttributeError
\* ends run_clock.
ClockPoll ==
    /\ tpc = "check"
    /\ CheckTick
    /\ tpc' = IF tick_log'.result = "true"
              THEN IF HasAttr("step_count") THEN "tick" ELSE "crashed"
              ELSE "poll"
    /\ UNCHANGED <<midi_buffer, clock_running, lpc, lev, recent_events, drains, recorded>>

\* on_select_changed, lines 110-116: the output selector. The current port is
\* closed and the selected one opened; if opening raises, the attribute keeps
\* the old port, which is closed. port_closed tells whether the port object
\* the attribute holds has been closed.
SelectOutput(p, opened) ==
    /\ current_output_port' = IF opened THEN p ELSE current_output_port
    /\ port_closed' = IF opened THEN FALSE ELSE current_output_port # None
    /\ UNCHANGED <<step_call, act_log, runs>>

\* on_select_changed, lines 111-112, as a step of its own:
\* if self.current_output_port: self.current_output_port.close()
SelectClose ==
    /\ current_output_port # None
    /\ ~port_closed
    /\ port_closed' = TRUE
    /\ UNCHANGED <<current_output_port, step_call, act_log, runs>>

\* on_select_changed, lines 113-116, after the test or the close of lines
\* 111-112: self.current_output_port = mido.open_output(...), a new open port,
\* or, if opening raises, no assignment.
SelectOpen(p, opened) ==
    /\ current_output_port = None \/ port_closed
    /\ current_output_port' = IF opened THEN p ELSE current_output_port
    /\ port_closed' = IF opened THEN FALSE ELSE port_closed
    /\ UNCHANGED <<step_call, act_log, runs>>

\* process_bayesian_step(recent_events, beat, sub), lines 192-214: the dominant
\* event and the step are computed; building BayesianInput then reads
\* self.tempo_engine.bar_count (line 212), which no TempoEngine has, and the
\* AttributeError ends the call.
StepEvidence(events, beat, sub) ==
    /\ LET d == DominantInput(events)
       IN  step_call' = [status |-> IF HasAttr("bar_count") THEN "built" ELSE "attrerror",
                         events |-> events, beat |-> beat, sub |-> sub,
                         drum |-> d.drum, velocity |-> d.velocity,
                         step |-> CurrentStep(beat, sub)]
    /\ UNCHANGED <<current_output_port, port_closed, act_log, runs>>

\* One tick followed through the arithmetic of the two methods, for any value
\* of the tick counter: check_tick adds 1 (tempo_engine.py line 19), run_clock
\* derives beat and sub from the counter (lines 136-138) and hands them, with
\* the events, to process_bayesian_step (line 145).
TickStep(events) ==
    /\ step_counter < MaxCounter
    /\ step_counter' = step_counter + 1
    /\ StepEvidence(events, BeatOf(step_counter'), SubOf(step_counter'))
    /\ UNCHANGED <<bpm, interval, last_tick_time, tick_log>>

\* process_bayesian_step, lines 216-227, for a decision returned by infer: a
\* rest returns; a play with a port starts play_note; a play without a port
\* reports "No Output selected!" once.
StepAct(should_play) ==
    /\ act_log' = [status |-> IF ~should_play THEN "rest"
                              ELSE IF current_output_port # None THEN "playing"
                              ELSE "reported",
                   should_play |-> should_play,
                   port |-> current_output_port,
                   reports |-> IF should_play /\ current_output_port = None THEN 1 ELSE 0,
                   notes |-> IF should_play /\ current_output_port # None THEN 1 ELSE 0]
    /\ UNCHANGED <<current_output_port, port_closed, step_call, runs>>

\* ---------------------------------------------------------------- the baked generator
\* BakedBayesianGenerator (src/bayesian/bayesian_network_ag_baked.py) over the
\* network of BayesianMusicGeneratorAg (src/bayesian/bayesian_network_ag.py).
\* Probabilities are integers: a cell of a conditional table is in hundredths,
\* a posterior (a sum of products of two cells) in ten-thousandths.
DrumTypes     == <<"NONE", "KICK", "SNARE", "RIM">>
DensityLevels == <<"SPARSE", "MEDIUM", "BUSY">>
EnergyLevels  == <<"CHILL", "GROOVE", "HIGH">>
ChordTypes    == <<"I", "IV", "V", "VI">>
PitchFuncs    == <<"ROOT", "THIRD_FIFTH", "COLOR">>

\* _build_network, lines 63-79: P(Density | Bar, Drum_Type) over SPARSE, MEDIUM,
\* BUSY. The rows of NONE keep the fill of line 63.
DensityCpt(bar, drum) ==
    IF drum = "KICK" THEN (IF bar = 4 THEN <<40, 40, 20>> ELSE <<80, 15, 5>>)
    ELSE IF drum = "SNARE" THEN (IF bar = 4 THEN <<5, 25, 70>> ELSE <<20, 70, 10>>)
    ELSE IF drum = "RIM" THEN (IF bar = 4 THEN <<5, 25, 70>> ELSE <<10, 40, 50>>)
    ELSE <<33, 33, 34>>

\* _build_network, lines 82-95: P(Energy | In_Velocity, Density) over CHILL,
\* GROOVE, HIGH.
EnergyCpt(is_loud, dens) ==
    IF is_loud
    THEN (IF dens = "SPARSE" THEN <<20, 70, 10>>
          ELSE IF dens = "MEDIUM" THEN <<5, 50, 45>>
          ELSE <<0, 10, 90>>)
    ELSE (IF dens = "SPARSE" THEN <<95, 5, 0>>
          ELSE IF dens = "MEDIUM" THEN <<80, 20, 0>>
          ELSE <<60, 40, 0>>)

\* _build_network, lines 98-108: P(Chord | Bar) over I, IV, V, VI.
ChordCpt(bar) ==
    IF bar = 1 THEN <<95, 0, 5, 0>>
    ELSE IF bar = 2 THEN <<10, 80, 5, 5>>
    ELSE IF bar = 3 THEN <<90, 5, 5, 0>>
    ELSE <<5, 5, 85, 5>>

\* _build_network, lines 112-123: p_play given Drum_Type, Beat_Type, Density.
PlayCpt(drum, beat, dens) ==
    IF drum = "NONE" THEN 0
    ELSE IF drum = "KICK" /\ beat = "DOWNBEAT" THEN 99
    ELSE IF dens = "SPARSE" THEN 20 ELSE 80

\* _build_network, lines 126-130: P(Pitch_Func | Chord, Beat_Type) over ROOT,
\* THIRD_FIFTH, COLOR.
PitchFuncCpt(chord, beat) ==
    IF chord = "I" /\ beat = "DOWNBEAT" THEN <<80, 15, 5>>
    ELSE IF chord = "I" /\ beat = "OFFBEAT" THEN <<20, 60, 20>>
    ELSE IF chord = "V" /\ beat = "DOWNBEAT" THEN <<50, 30, 20>>
    ELSE <<30, 40, 30>>

\* _build_network, lines 134-149: P(Out_Channel | Drum_Type, Bar) over the
\* channel indices 0, 1, 2.
ChannelCpt(drum, bar) ==
    IF drum = "RIM" THEN <<0, 0, 100>>
    ELSE IF drum = "SNARE" THEN (IF bar = 4 THEN <<0, 40, 60>> ELSE <<0, 90, 10>>)
    ELSE <<100, 0, 0>>

\* _bake_logic, lines 43-55: the beat type of a step.
BeatTypeOf(step) ==
    IF step % 4 = 1 THEN "DOWNBEAT"
    ELSE IF step % 2 = 1 THEN "OFFBEAT"
    ELSE "SUBDIVISION"

\* _bake_logic, lines 58-69: the posteriors of the five queried nodes under the
\* evidence Bar, Drum_Type, In_Velocity, Beat_Type; the hidden Density and
\* Chord are summed out.
PlayPosterior(bar, drum, beat) ==
    LET d == DensityCpt(bar, drum)
        p == d[1] * PlayCpt(drum, beat, "SPARSE") + d[2] * PlayCpt(drum, beat, "MEDIUM")
             + d[3] * PlayCpt(drum, beat, "BUSY")
    IN  <<10000 - p, p>>

PitchPosterior(bar, beat) ==
    LET c == ChordCpt(bar)
    IN  [f \in 1..3 |-> c[1] * PitchFuncCpt("I", beat)[f] + c[2] * PitchFuncCpt("IV", beat)[f]
                        + c[3] * PitchFuncCpt("V", beat)[f] + c[4] * PitchFuncCpt("VI", beat)[f]]

EnergyPosterior(bar, drum, is_loud) ==
    LET d == DensityCpt(bar, drum)
    IN  [e \in 1..3 |-> d[1] * EnergyCpt(is_loud, "SPARSE")[e] + d[2] * EnergyCpt(is_loud, "MEDIUM")[e]
                        + d[3] * EnergyCpt(is_loud, "BUSY")[e]]

\* _bake_logic, line 71: play_dist[1] < 0.001, in ten-thousandths.
PlayThreshold == 10

\* A value of the lookup table: None, or the five distributions. (A record in
\* both cases, so that the two can be compared.)
AbsentEntry == [kind |-> "None"]

CacheEntryAlwaysDists(bar, drum, is_loud, step) ==
    [kind |-> "dists",
     play |-> PlayPosterior(bar, drum, BeatTypeOf(step)),
     pitch |-> PitchPosterior(bar, BeatTypeOf(step)),
     chord |-> ChordCpt(bar),
     energy |-> EnergyPosterior(bar, drum, is_loud),
     channel |-> ChannelCpt(drum, bar)]

\* _bake_logic, lines 71-80: the cache entry of one key.
CacheEntry(bar, drum, is_loud, step) ==
    LET beat == BeatTypeOf(step)
        play_dist == PlayPosterior(bar, drum, beat)
    IN  IF play_dist[2] < PlayThreshold THEN AbsentEntry
        ELSE [kind |-> "dists",
              play |-> play_dist,
              pitch |-> PitchPosterior(bar, beat),
              chord |-> ChordCpt(bar),
              energy |-> EnergyPosterior(bar, drum, is_loud),
              channel |-> ChannelCpt(drum, bar)]

\* Python's range(a, b), as the sequence of its values.
PyRangeInclusive(a, b) == [i \in 1..(b - a + 1) |-> a + i - 1]

PyRange(a, b) == [i \in 1..(b - a) |-> a + i - 1]

\* _bake_logic, lines 32-35: the four nested loops, outermost first.
BakeBars  == PyRange(1, 5)
BakeLoud  == <<FALSE, TRUE>>
BakeSteps == PyRange(1, 17)
NumKeys   == Len(BakeBars) * Len(DrumTypes) * Len(BakeLoud) * Len(BakeSteps)

\* The key of iteration i (from 0) of the nested loops.
KeyAt(i) ==
    <<BakeBars[(i \div (Len(DrumTypes) * Len(BakeLoud) * Len(BakeSteps))) + 1],
      DrumTypes[((i \div (Len(BakeLoud) * Len(BakeSteps))) % Len(DrumTypes)) + 1],
      BakeLoud[((i \div Len(BakeSteps)) % Len(BakeLoud)) + 1],
      BakeSteps[(i % Len(BakeSteps)) + 1]>>

NoQuery == [status |-> "none"]

\* __init__, lines 18-19: the table is empty when _bake_logic starts.
BakedInit ==
    /\ lookup_table = [k \in {} |-> AbsentEntry]
    /\ bake_i = 0
    /\ query = NoQuery

\* _bake_logic, lines 84-85, in iteration i: the entry of the key is stored.
Store(table, i) ==
    LET key == KeyAt(i)
        cache_entry == CacheEntry(key[1], key[2], key[3], key[4])
    IN  [k \in DOMAIN table \cup {key} |-> IF k = key THEN cache_entry ELSE table[k]]

\* _bake_logic, lines 32-88: one iteration of the innermost loop.
BakeEntry ==
    /\ bake_i < NumKeys
    /\ lookup_table' = Store(lookup_table, bake_i)
    /\ bake_i' = bake_i + 1
    /\ UNCHANGED query

\* _bake_logic, lines 32-88: the table after all iterations. The entry of a
\* key depends on the key only, so every key of an iteration holds its entry.
BakeAll(table) ==
    LET keys == {KeyAt(i) : i \in 0..(NumKeys - 1)}
    IN  [k \in DOMAIN table \cup keys |->
            IF k \in keys THEN CacheEntry(k[1], k[2], k[3], k[4]) ELSE table[k]]

\* _bake_logic as one step: nothing else runs while __init__ does.
BakeLogic ==
    /\ bake_i = 0
    /\ lookup_table' = BakeAll(lookup_table)
    /\ bake_i' = NumKeys
    /\ UNCHANGED query

\* ---- infer
RECURSIVE SumTo(_, _)
SumTo(w, n) == IF n = 0 THEN 0 ELSE w[n] + SumTo(w, n - 1)
Total(w) == SumTo(w, Len(w))

\* random.choices(population, weights=w)[0], as the set of the indices (from 1)
\* of the elements it can return: an element of weight zero is never returned.
\* When the total of the weights is not greater than zero the call raises
\* ValueError, written as the index 0.
ChoicesLast(w) == IF Total(w) <= 0 THEN {Len(w)} ELSE {i \in 1..Len(w) : w[i] > 0}

Choices(w) == IF Total(w) <= 0 THEN {0} ELSE {i \in 1..Len(w) : w[i] > 0}

\* random.random(), in hundredths: one value in each of the intervals that the
\* comparisons of _resolve_pitch (0.33, 0.5, 0.66) tell apart.
RandomDraws == {10, 40, 60, 90}

\* int(n / d): truncation towards zero.
Trunc(n, d) == IF n >= 0 THEN n \div d ELSE -((-n) \div d)

\* infer, lines 132-134.
FinalVelocityNoCap(velocity, energy) ==
    Trunc(velocity * (IF energy = "HIGH" THEN 12 ELSE 9), 10)

FinalVelocity(velocity, energy) ==
    LET energy_mult10 == IF energy = "HIGH" THEN 12 ELSE 9
        final_velocity == Trunc(velocity * energy_mult10, 10)
    IN  IF final_velocity > 127 THEN 127 ELSE final_velocity

\* _resolve_pitch, lines 151-157.
RootOffset(chord) ==
    IF chord = "IV" THEN 5 ELSE IF chord = "V" THEN 7 ELSE IF chord = "VI" THEN 9 ELSE 0

\* _resolve_pitch, lines 160-170; r is the value random.random() returns.
Interval(func, r) ==
    IF func = "THIRD_FIFTH" THEN (IF r < 50 THEN 4 ELSE 7)
    ELSE IF func = "COLOR" THEN (IF r < 33 THEN 2 ELSE IF r < 66 THEN 11 ELSE 14)
    ELSE 0

TranspositionByOctaves(channel) ==
    IF channel = 1 THEN -24 ELSE IF channel = 2 THEN -12 ELSE IF channel = 3 THEN 48 ELSE 0

\* _resolve_pitch, lines 179-184.
Transposition(channel) ==
    IF channel = 1 THEN -24 ELSE IF channel = 2 THEN -12 ELSE IF channel = 3 THEN 24 ELSE 0

ResolvePitchOnTonic(chord, func, channel, r) ==
    60 + RootOffset("I") + Interval(func, r) + Transposition(channel)

\* _resolve_pitch(chord, func, channel), lines 148-186.
ResolvePitch(chord, func, channel, r) ==
    LET base_pitch == 60 + RootOffset(chord) + Interval(func, r)
    IN  base_pitch + Transposition(channel)

\* dict.get(key): the stored value, or None for a key the dict does not hold.
Get(table, key) == IF key \in DOMAIN table THEN table[key] ELSE AbsentEntry

\* BayesianOutput(False, 0, 0, 0, 0, debug_info), lines 103 and 111.
Rest(call, debug_info) ==
    [status |-> "returned", call |-> call, should_play |-> FALSE, midi_note |-> 0,
     velocity |-> 0, duration |-> 0, channel |-> 0, debug_info |-> debug_info]

\* An exception leaving infer: nothing is returned.
Raised(call, error, at) == [status |-> "raised", call |-> call, error |-> error, at |-> at]

\* infer, lines 105-146, for the distributions dists and one outcome of each
\* random call: g, f, c, e, ch are the indices drawn by the five
\* random.choices calls (0: the call raised) and r is the random.random() of
\* _resolve_pitch. The duration, 0.5 s, is in milliseconds.
Sampled(call, dists, velocity, g, f, c, e, ch, r) ==
    IF g = 0 THEN Raised(call, "ValueError", "play")
    ELSE IF ~(<<FALSE, TRUE>>[g]) THEN Rest(call, "Rest")
    ELSE IF f = 0 THEN Raised(call, "ValueError", "pitch")
    ELSE IF c = 0 THEN Raised(call, "ValueError", "chord")
    ELSE IF e = 0 THEN Raised(call, "ValueError", "energy")
    ELSE IF ch = 0 THEN Raised(call, "ValueError", "channel")
    ELSE LET pf_val == PitchFuncs[f]
             current_chord == ChordTypes[c]
             current_energy == EnergyLevels[e]
             final_channel == (ch - 1) + 1
         IN  [status |-> "returned", call |-> call, should_play |-> TRUE,
              midi_note |-> ResolvePitch(current_chord, pf_val, final_channel, r),
              velocity |-> FinalVelocity(velocity, current_energy),
              duration |-> 500, channel |-> final_channel,
              chord |-> current_chord, func |-> pf_val, energy |-> current_energy]

\* infer, lines 102-146: every result the call can have once dists is fetched.
InferResults(call, dists, velocity) ==
    IF dists = AbsentEntry THEN {Rest(call, "Rest (Baked)")}
    ELSE {Sampled(call, dists, velocity, g, f, c, e, ch, r) :
              g \in Choices(dists.play), f \in Choices(dists.pitch),
              c \in Choices(dists.chord), e \in Choices(dists.energy),
              ch \in Choices(dists.channel), r \in RandomDraws}

IsLoudFrom90(velocity) == velocity >= 90

\* infer, line 95: is_loud = data.velocity > 90
IsLoud(velocity) == velocity > 90

\* The evidence given to infer: bars and steps on both sides of the baked
\* ranges, every drum type, a soft and a loud velocity.
QueryBars       == 0..5
QuerySteps      == 0..17
QueryVelocities == {50, 100}
MidiVelocities  == 0..127
DrumTypeSet     == {DrumTypes[i] : i \in 1..Len(DrumTypes)}

\* infer(data), lines 90-146, on the baked table.
Infer(data) ==
    /\ bake_i = NumKeys
    /\ LET is_loud == IsLoud(data.velocity)
           key == <<data.bar, data.drum_type, is_loud, data.step>>
           dists == Get(lookup_table, key)
           call == [data |-> data, key |-> key, held |-> key \in DOMAIN lookup_table,
                    dists |-> dists]
       IN  query' \in InferResults(call, dists, data.velocity)
    /\ UNCHANGED <<lookup_table, bake_i>>

\* Stored distributions of any shape, the all-zero ones included: what infer
\* does with a table that another baker could have produced.
StoredEntries ==
    {AbsentEntry} \cup
    [kind : {"dists"},
     play : {<<0, 0>>, <<5000, 5000>>, <<0, 10000>>},
     pitch : {<<0, 0, 0>>, <<3000, 4000, 3000>>},
     chord : {<<0, 0, 0, 0>>, <<95, 0, 5, 0>>},
     energy : {<<0, 0, 0>>, <<0, 5000, 5000>>},
     channel : {<<0, 0, 0>>, <<0, 90, 10>>}]

\* infer, lines 102-146, for a key whose stored value is dists.
InferStored(dists, data) ==
    /\ LET is_loud == IsLoud(data.velocity)
           key == <<data.bar, data.drum_type, is_loud, data.step>>
           call == [data |-> data, key |-> key, held |-> TRUE, dists |-> dists]
       IN  query' \in InferResults(call, dists, data.velocity)
    /\ UNCHANGED <<lookup_table, bake_i>>

\* ---------------------------------------------------------------- the notes of the application
\* BayesianMidiPerformer.play_note (src/main.py, lines 229-238): every call
\* runs in a thread of its own, which sends the note-on, sleeps for the
\* duration and sends the note-off. The method is applied to any call.
AppThreads == {1, 2}    \* the play_note threads of a behaviour, by the order of the calls

NotesInit == note_threads = <<>>

\* process_bayesian_step, line 225: play_note is called and its thread starts.
AppPlayNoteCall(output_duration) ==
    /\ Len(note_threads) + 1 \in AppThreads
    /\ note_threads' = Append(note_threads,
                              [pc |-> "test", duration |-> output_duration, on_at |-> -1,
                               wake |-> -1, off_at |-> -1, on_port |-> None, off_port |-> None,
                               on_running |-> FALSE, off_running |-> FALSE])

\* play_note, lines 234-237: without an output port the thread returns;
\* otherwise it sends the note-on and starts time.sleep(output_duration),
\* which returns no earlier than output_duration later. (Once set, the port
\* attribute is never None again.)
AppPlayNoteOn(i) ==
    /\ note_threads[i].pc = "test"
    /\ note_threads' =
           [note_threads EXCEPT ![i] =
               IF current_output_port = None
               THEN [@ EXCEPT !.pc = "returned"]
               ELSE [@ EXCEPT !.pc = "sleep", !.on_at = now, !.wake = now + note_threads[i].duration,
                              !.on_port = current_output_port, !.on_running = clock_running]]

AppPlayNoteOffIfRunning(i) ==
    /\ note_threads[i].pc = "sleep"
    /\ now >= note_threads[i].wake
    /\ note_threads' =
           [note_threads EXCEPT ![i] =
               IF clock_running
               THEN [@ EXCEPT !.pc = "done", !.off_at = now, !.off_port = current_output_port,
                              !.off_running = clock_running]
               ELSE [@ EXCEPT !.pc = "done"]]

\* play_note, line 238: the sleep is over and the note-off is sent to the
\* port the attribute holds now.
AppPlayNoteOff(i) ==
    /\ note_threads[i].pc = "sleep"
    /\ now >= note_threads[i].wake
    /\ note_threads' =
           [note_threads EXCEPT ![i] =
               [@ EXCEPT !.pc = "done", !.off_at = now, !.off_port = current_output_port,
                         !.off_running = clock_running]]

\* ---------------------------------------------------------------- specifications
Init == now = 0 /\ SchedInit /\ BufInit /\ TempoInit /\ PerfInit /\ BakedInit /\ NotesInit

SchedNext ==
    \/ Tick /\ UNCHANGED <<schedVars, bufVars, tempoVars, perfVars, bakedVars, note_threads>>
    \/ \E p \in Ports \cup {None} : SetPort(p) /\ UNCHANGED <<bufVars, tempoVars, perfVars, bakedVars, note_threads>>
    \/ \E c \in Callers, n \in Notes, ch \in Channels, d \in Durations :
           PlayNoteTest(c, n, ch, d) /\ UNCHANGED <<port_set, bufVars, tempoVars, perfVars, bakedVars, note_threads>>
    \/ \E c \in Callers : PlayNoteSendOn(c) /\ UNCHANGED <<port_set, bufVars, tempoVars, perfVars, bakedVars, note_threads>>
    \/ \E c \in Callers : PlayNotePush(c) /\ UNCHANGED <<port_set, bufVars, tempoVars, perfVars, bakedVars, note_threads>>
    \/ WorkerWhile /\ UNCHANGED <<port_set, bufVars, tempoVars, perfVars, bakedVars, note_threads>>
    \/ WorkerWith /\ UNCHANGED <<port_set, bufVars, tempoVars, perfVars, bakedVars, note_threads>>
    \/ WorkerBody /\ UNCHANGED <<port_set, bufVars, tempoVars, perfVars, bakedVars, note_threads>>
    \/ WorkerTimeout /\ UNCHANGED <<port_set, bufVars, tempoVars, perfVars, bakedVars, note_threads>>
    \/ WorkerWoken /\ UNCHANGED <<port_set, bufVars, tempoVars, perfVars, bakedVars, note_threads>>

SchedSpec == Init /\ [][SchedNext]_vars

\* The scheduler with two ports, stop() and the worker's dispatch in single
\* statements. The callers play one note value with one duration, and start a
\* call only when the queue is empty: this specification is about what
\* set_port and stop() do to the worker, not about the order of the queue.
WorkerNext ==
    \/ Tick /\ UNCHANGED <<schedVars, bufVars, tempoVars, perfVars, bakedVars, note_threads>>
    \/ \E p \in TwoPorts \cup {None} : SetPort(p) /\ UNCHANGED <<bufVars, tempoVars, perfVars, bakedVars, note_threads>>
    \/ \E c \in Callers, ch \in Channels :
           /\ queue = <<>>
           /\ PlayNoteTest(c, 60, ch, 1)
           /\ UNCHANGED <<port_set, bufVars, tempoVars, perfVars, bakedVars, note_threads>>
    \/ \E c \in Callers : PlayNoteSendOn(c) /\ UNCHANGED <<port_set, bufVars, tempoVars, perfVars, bakedVars, note_threads>>
    \/ \E c \in Callers : PlayNotePush(c) /\ UNCHANGED <<port_set, bufVars, tempoVars, perfVars, bakedVars, note_threads>>
    \/ WorkerWhile /\ UNCHANGED <<port_set, bufVars, tempoVars, perfVars, bakedVars, note_threads>>
    \/ WorkerWith /\ UNCHANGED <<port_set, bufVars, tempoVars, perfVars, bakedVars, note_threads>>
    \/ WorkerInspect /\ UNCHANGED <<port_set, bufVars, tempoVars, perfVars, bakedVars, note_threads>>
    \/ WorkerTestPort /\ UNCHANGED <<port_set, bufVars, tempoVars, perfVars, bakedVars, note_threads>>
    \/ WorkerSend /\ UNCHANGED <<port_set, bufVars, tempoVars, perfVars, bakedVars, note_threads>>
    \/ WorkerTimeout /\ UNCHANGED <<port_set, bufVars, tempoVars, perfVars, bakedVars, note_threads>>
    \/ WorkerWoken /\ UNCHANGED <<port_set, bufVars, tempoVars, perfVars, bakedVars, note_threads>>
    \/ StopFlag /\ UNCHANGED <<port_set, bufVars, tempoVars, perfVars, bakedVars, note_threads>>
    \/ StopNotify /\ UNCHANGED <<port_set, bufVars, tempoVars, perfVars, bakedVars, note_threads>>

WorkerSpec == Init /\ [][WorkerNext]_vars

BufferNext ==
    \/ TogglePlay /\ UNCHANGED <<schedVars, bakedVars, note_threads>>
    \/ \E d \in Drums, v \in Velocities :
           ListenerNoteOn(d, v) /\ UNCHANGED <<schedVars, tempoVars, perfVars, bakedVars, note_threads>>
    \/ MainAppend /\ UNCHANGED <<schedVars, tempoVars, perfVars, bakedVars, note_threads>>
    \/ ClockCopy /\ UNCHANGED <<schedVars, tempoVars, perfVars, bakedVars, note_threads>>
    \/ ClockClear /\ UNCHANGED <<schedVars, tempoVars, perfVars, bakedVars, note_threads>>

BufferSpec == Init /\ [][BufferNext]_vars

TempoNext ==
    \/ TempoTick /\ UNCHANGED <<schedVars, bufVars, tempoVars, perfVars, bakedVars, note_threads>>
    \/ CheckTick /\ UNCHANGED <<schedVars, bufVars, perfVars, bakedVars, note_threads>>
    \/ Reset /\ UNCHANGED <<now, bpm, interval, schedVars, bufVars, perfVars, bakedVars, note_threads>>
    \/ \E b \in BpmInputs : SetBpm(b) /\ UNCHANGED <<schedVars, bufVars, perfVars, bakedVars, note_threads>>

TempoSpec == Init /\ [][TempoNext]_vars

ClockNext ==
    \/ TempoTick /\ UNCHANGED <<schedVars, bufVars, tempoVars, perfVars, bakedVars, note_threads>>
    \/ TogglePlay /\ UNCHANGED <<schedVars, bakedVars, note_threads>>
    \/ ClockTest /\ UNCHANGED <<now, schedVars, tempoVars, perfVars, bakedVars, note_threads>>
    \/ ClockPoll /\ UNCHANGED <<schedVars, perfVars, bakedVars, note_threads>>
    \/ \E b \in UiBpm : SetBpm(b) /\ UNCHANGED <<schedVars, bufVars, perfVars, bakedVars, note_threads>>
    \/ \E p \in Ports, opened \in BOOLEAN :
           SelectOutput(p, opened) /\ UNCHANGED <<now, schedVars, bufVars, tempoVars, bakedVars, note_threads>>
    \/ \E d \in BOOLEAN : StepAct(d) /\ UNCHANGED <<now, schedVars, bufVars, tempoVars, bakedVars, note_threads>>

ClockSpec == Init /\ [][ClockNext]_vars

\* process_bayesian_step keeps nothing from one call to the next: each
\* behaviour applies it once, to any arguments.
StepNext ==
    \E events \in EventLists, beat \in Beats, sub \in Subs :
        /\ step_call = NoStep
        /\ StepEvidence(events, beat, sub)
        /\ UNCHANGED <<now, schedVars, bufVars, tempoVars, bakedVars, note_threads>>

StepSpec == Init /\ [][StepNext]_vars

\* The arithmetic from the tick counter to the step of the evidence, tick after
\* tick, with any events.
StepCycleNext ==
    \E events \in EventLists :
        TickStep(events) /\ UNCHANGED <<now, schedVars, bufVars, bakedVars, note_threads>>

StepCycleSpec == Init /\ [][StepCycleNext]_vars

\* __init__ of the baked generator: the iterations of _bake_logic.
BakeNext == BakeEntry /\ UNCHANGED <<now, schedVars, bufVars, tempoVars, perfVars, note_threads>>

BakeSpec == Init /\ [][BakeNext]_vars

\* The baked generator: __init__ bakes the table, then infer is called; it
\* keeps nothing from one call to the next, so each behaviour calls it once.
\* The second disjunct of the calls walks the whole range of MIDI velocities on
\* the first step of the first bar.
BakedNext ==
    \/ BakeLogic /\ UNCHANGED <<now, schedVars, bufVars, tempoVars, perfVars, note_threads>>
    \/ \E bar \in QueryBars, drum \in DrumTypeSet, v \in QueryVelocities, step \in QuerySteps :
           /\ query = NoQuery
           /\ Infer([drum_type |-> drum, velocity |-> v, bar |-> bar, step |-> step])
           /\ UNCHANGED <<now, schedVars, bufVars, tempoVars, perfVars, note_threads>>
    \/ \E drum \in DrumTypeSet, v \in MidiVelocities :
           /\ query = NoQuery
           /\ Infer([drum_type |-> drum, velocity |-> v, bar |-> 1, step |-> 1])
           /\ UNCHANGED <<now, schedVars, bufVars, tempoVars, perfVars, note_threads>>

BakedSpec == Init /\ [][BakedNext]_vars

\* The sampling of infer on stored distributions of any shape.
QueryNext ==
    \E dists \in StoredEntries, drum \in DrumTypeSet, v \in QueryVelocities :
        /\ query = NoQuery
        /\ InferStored(dists, [drum_type |-> drum, velocity |-> v, bar |-> 1, step |-> 1])
        /\ UNCHANGED <<now, schedVars, bufVars, tempoVars, perfVars, note_threads>>

QuerySpec == Init /\ [][QueryNext]_vars

\* The notes of the application under the user's toggles and selections.
NoteNext ==
    \/ Tick /\ UNCHANGED <<schedVars, bufVars, tempoVars, perfVars, bakedVars, note_threads>>
    \/ TogglePlay /\ UNCHANGED <<schedVars, bakedVars, note_threads>>
    \/ ClockTest /\ UNCHANGED <<now, schedVars, tempoVars, perfVars, bakedVars, note_threads>>
    \/ ClockPoll /\ UNCHANGED <<schedVars, perfVars, bakedVars, note_threads>>
    \/ \E p \in Ports, opened \in BOOLEAN :
           SelectOutput(p, opened)
           /\ UNCHANGED <<now, schedVars, bufVars, tempoVars, bakedVars, note_threads>>
    \/ \E d \in Durations :
           AppPlayNoteCall(d) /\ UNCHANGED <<now, schedVars, bufVars, tempoVars, perfVars, bakedVars>>
    \/ \E i \in 1..Len(note_threads) :
           AppPlayNoteOn(i) /\ UNCHANGED <<now, schedVars, bufVars, tempoVars, perfVars, bakedVars>>
    \/ \E i \in 1..Len(note_threads) :
           AppPlayNoteOff(i) /\ UNCHANGED <<now, schedVars, bufVars, tempoVars, perfVars, bakedVars>>

NoteSpec == Init /\ [][NoteNext]_vars

\* The output selector, statement by statement, with the play_note threads.
PortNext ==
    \/ Tick /\ UNCHANGED <<schedVars, bufVars, tempoVars, perfVars, bakedVars, note_threads>>
    \/ SelectClose /\ UNCHANGED <<now, schedVars, bufVars, tempoVars, bakedVars, note_threads>>
    \/ \E p \in Ports, opened \in BOOLEAN :
           SelectOpen(p, opened)
           /\ UNCHANGED <<now, schedVars, bufVars, tempoVars, bakedVars, note_threads>>
    \/ \E d \in Durations :
           AppPlayNoteCall(d) /\ UNCHANGED <<now, schedVars, bufVars, tempoVars, perfVars, bakedVars>>
    \/ \E i \in 1..Len(note_threads) :
           AppPlayNoteOn(i) /\ UNCHANGED <<now, schedVars, bufVars, tempoVars, perfVars, bakedVars>>
    \/ \E i \in 1..Len(note_threads) :
           AppPlayNoteOff(i) /\ UNCHANGED <<now, schedVars, bufVars, tempoVars, perfVars, bakedVars>>

PortSpec == Init /\ [][PortNext]_vars

\* ---------------------------------------------------------------- claims on MidiScheduler
NoteOns  == {i \in DOMAIN sent : sent[i].msg.type = "note_on"}
NoteOffs == {i \in DOMAIN sent : sent[i].msg.type = "note_off"}
NoteOnSent(id)  == \E i \in NoteOns : sent[i].msg.id = id
NoteOffSent(id) == \E i \in NoteOffs : sent[i].msg.id = id
Queued(id)      == \E k \in DOMAIN queue : queue[k].msg.id = id
Pushing(id)     == \E c \in Callers : cpc[c] = "push" /\ cur[c].id = id

\* C1: a play_note call that finds a port configured sends its note-on on the
\* calling thread before it returns and before its note-off is put in the
\* queue: whenever a call is about to push, has pushed or has returned, and
\* whenever its note-off is queued or was dispatched, the sink already holds
\* that call's note-on, sent by the caller, ahead of the note-off.
C1_NoteOnBeforeReturnAndQueue ==
    /\ \A id \in DOMAIN calls :
           (calls[id] \in {"returned", "typeerror"} \/ Pushing(id) \/ Queued(id))
               => \E i \in NoteOns : sent[i].msg.id = id /\ sent[i].by \in Callers
    /\ \A c \in Callers : cpc[c] = "push" => ~Queued(cur[c].id)
    /\ \A j \in NoteOffs : \E i \in NoteOns : i < j /\ sent[i].msg.id = sent[j].msg.id

\* C1 witness: a call has returned, its note-on is at the sink and its note-off waits in the queue.
C1_Witness ==
    \E id \in DOMAIN calls : calls[id] = "returned" /\ Queued(id) /\ NoteOnSent(id)

\* C2: the worker never sends a note-off before its due time, the time at which
\* play_note read the clock plus the duration.
C2_NoteOffNotEarly ==
    \A j \in NoteOffs :
        \E i \in NoteOns :
            /\ sent[i].msg.id = sent[j].msg.id
            /\ sent[j].due = sent[i].at + sent[i].duration
            /\ sent[j].at >= sent[i].at + sent[i].duration

\* C2 witness: a note-off of duration 2 was sent by the worker exactly at its due time.
C2_Witness ==
    \E j \in NoteOffs : \E i \in NoteOns :
        /\ sent[i].msg.id = sent[j].msg.id
        /\ sent[i].duration = 2
        /\ sent[j].by = "worker"
        /\ sent[j].at = sent[i].at + 2

C4_TiesStableAndNoFailure ==
    /\ \A id \in DOMAIN calls : calls[id] # "typeerror"
    /\ wpc # "crashed"
    /\ \A i, j \in NoteOffs :
           (i < j /\ sent[i].due = sent[j].due) => sent[i].msg.id < sent[j].msg.id

\* C5: every note-on is eventually followed by its note-off. Stated so that a
\* finite run refutes it: entries enter the queue only in play_note, so the
\* note-off of a note-on at the sink must be at the sink, in the queue, or
\* about to be pushed by its call; otherwise it can never be sent.
C5_NoteOffNotLost ==
    \A i \in NoteOns :
        LET id == sent[i].msg.id
        IN  NoteOffSent(id) \/ Queued(id) \/ Pushing(id)

\* ---------------------------------------------------------------- claims on the input buffer
RECURSIVE Flatten(_)
Flatten(ss) == IF ss = <<>> THEN <<>> ELSE Head(ss) \o Flatten(Tail(ss))

Drained == Flatten(drains)
Holds(seq, id) == \E i \in DOMAIN seq : seq[i].id = id

\* C6: every event appended to the buffer is delivered to exactly one drain:
\* no event is returned twice, and an appended event is still in the buffer,
\* in the copy being handed over, or in a drain: it is never lost.
C6_EveryEventInExactlyOneDrain ==
    /\ \A i, j \in DOMAIN Drained : i # j => Drained[i].id # Drained[j].id
    /\ \A id \in 1..recorded :
           Holds(midi_buffer, id) \/ Holds(recent_events, id) \/ Holds(Drained, id)

\* C7: the events of one drain are in the order of their appends, and every
\* event of an earlier drain was appended before every event of a later one.
C7_DrainsInArrivalOrder ==
    \A i, j \in DOMAIN Drained : i < j => Drained[i].id < Drained[j].id

\* C7 witness: a drain of two events has been followed by a non-empty drain.
C7_Witness ==
    \E m, n \in DOMAIN drains : m < n /\ Len(drains[m]) >= 2 /\ Len(drains[n]) >= 1

\* ---------------------------------------------------------------- claims on TempoEngine
\* C8: check_tick returns True only when an interval has elapsed since the
\* reference time, and then adds one to the tick counter and one interval to
\* the reference time; when it returns False it changes neither. (tick_log
\* changes exactly in the steps that call the engine.)
C8_CheckTickEffect ==
    [][tick_log' # tick_log =>
          /\ tick_log'.result = "true" =>
                 /\ now - last_tick_time >= interval
                 /\ step_counter' = step_counter + 1
                 /\ last_tick_time' = last_tick_time + interval
          /\ tick_log'.result = "false" =>
                 /\ now - last_tick_time < interval
                 /\ step_counter' = step_counter
                 /\ last_tick_time' = last_tick_time]_vars

\* C8 witness: check_tick has returned True and then, polled again, False.
C8_Witness ==
    tick_log.result = "false" /\ step_counter >= 1 /\ tick_log.fired # -1

\* C9: at a fixed valid rate no tick is skipped: when check_tick returns False,
\* the tick counter equals the number of whole intervals elapsed since the
\* reset, however late the polls were; until then it is never ahead of it.
C9_NoTickSkipped ==
    (tick_log.fixed_rate /\ interval > 0) =>
        /\ last_tick_time = tick_log.reset_at + step_counter * interval
        /\ step_counter * interval <= now - tick_log.reset_at
        /\ tick_log.result = "false" =>
               step_counter = (tick_log.at - tick_log.reset_at) \div interval

\* C9 witness: after late polls two ticks fired at the same clock reading, and
\* the next poll returned False.
C9_Witness ==
    /\ tick_log.fixed_rate /\ interval > 0
    /\ tick_log.result = "false"
    /\ tick_log.gap = 0
    /\ step_counter >= 2

\* C10 as claimed: at a fixed valid rate, two consecutive True returns of
\* check_tick are at least one interval apart.
C10_NoDoubleFire ==
    (tick_log.result = "true" /\ tick_log.gap # -1 /\ tick_log.fixed_rate /\ interval > 0) =>
        tick_log.gap >= interval

\* C10 as amended: a True return is never earlier than one interval after the
\* reference time, so two consecutive True returns are apart by at least the
\* interval minus the lateness of the first (how long after its own reference
\* time it fired); at a fixed valid rate the k-th tick after a reset never
\* fires before k intervals after the reset.
C10_TicksNeverEarly ==
    [][(tick_log' # tick_log /\ tick_log'.result = "true") =>
          /\ now >= last_tick_time + interval
          /\ tick_log.fired # -1 => now - tick_log.fired >= interval - tick_log.late
          /\ (tick_log.fixed_rate /\ interval > 0) =>
                 now >= tick_log.reset_at + step_counter' * interval]_vars

\* C10 witness: two consecutive True returns less than one interval apart.
C10_Witness ==
    /\ tick_log.result = "true" /\ interval > 0 /\ tick_log.fixed_rate
    /\ tick_log.gap # -1 /\ tick_log.gap < interval

\* C12: set_bpm called with a zero or negative tempo is rejected: the call
\* leaves bpm, interval, tick counter and reference time as they were.
C12_InvalidTempoRejected ==
    [][\A b \in BpmInputs :
           (b <= 0 /\ SetBpm(b)) =>
               UNCHANGED <<bpm, interval, step_counter, last_tick_time>>]_vars

\* ---------------------------------------------------------------- claims on stop() and set_port
WorkerSends(log) == {i \in DOMAIN log : log[i].by = "worker"}

\* C13: once stop() has returned the worker sends nothing more: no step taken
\* after the return adds a message sent by the worker to a sink.
C13_NoDispatchAfterStop ==
    [][stoppc = "done" => WorkerSends(sent') = WorkerSends(sent)]_vars

\* C14: after stop() the worker leaves its loop. Stated so that a finite run
\* refutes it: once stop() has returned, the worker is never blocked in the
\* wait() without timeout while the queue is empty and no play_note call is in
\* progress, a state it can leave only if some other thread calls the
\* scheduler again.
C14_WorkerNotStrandedAfterStop ==
    ~(/\ stoppc = "done"
      /\ wpc = "wait"
      /\ queue = <<>>
      /\ \A c \in Callers : cpc[c] = "idle")

\* C15: every note-off the worker sends goes to the port of the last set_port
\* call that has returned, and sending it changes neither the port nor the
\* worker's being alive.
C15_DispatchToLastPortSet ==
    [][\A i \in WorkerSends(sent') \ WorkerSends(sent) :
           /\ sent'[i].port = port_set
           /\ port_set' = port_set
           /\ wpc' = "while"]_vars

\* C15 witness: set_port(P1) and later set_port(P2) have returned, and the
\* worker has sent one note-off to each of them.
C15_Witness ==
    /\ port_set = "P2"
    /\ \E i, j \in WorkerSends(sent) : i < j /\ sent[i].port = "P1" /\ sent[j].port = "P2"

\* C16: between the worker's test of the port (line 64) and its send (line 65)
\* no set_port takes effect: when the worker is about to send, it holds the
\* lock and the port is the one it tested.
C16_NoReplacementBetweenTestAndSend ==
    wpc = "send" => (lock = "worker" /\ output_port = wlocal.tested /\ output_port # None)

\* C16 witness: the worker is about to send to P2, after a note-off went to P1.
C16_Witness ==
    /\ wpc = "send"
    /\ wlocal.tested = "P2"
    /\ \E i \in WorkerSends(sent) : sent[i].port = "P1"

\* C17: a queued note-off leaves the queue only in a step of the worker's loop
\* body, and every play_note call's note-off is, in total, at most once in the
\* queue or at a sink: none is removed or dispatched twice.
C17_RemovedOnceByWorker ==
    [][/\ \A k \in DOMAIN queue :
              ~(\E m \in DOMAIN queue' : queue'[m].msg.id = queue[k].msg.id)
                  => (wpc = "body" /\ lock = "worker" /\ Len(queue') = Len(queue) - 1)
       /\ \A id \in DOMAIN calls' :
              Cardinality({k \in DOMAIN queue' : queue'[k].msg.id = id})
                + Cardinality({i \in DOMAIN sent' : /\ sent'[i].msg.type = "note_off"
                                                    /\ sent'[i].msg.id = id}) <= 1]_vars

\* C17 witness: the note-offs of two play_note calls have both been dispatched,
\* the second call having started before the first note-off was sent.
C17_Witness ==
    /\ queue = <<>>
    /\ \E i, j \in NoteOffs : \E k \in NoteOns :
           i < j /\ k < i /\ sent[k].msg.id = sent[j].msg.id /\ sent[i].msg.id # sent[j].msg.id

\* ---------------------------------------------------------------- claims on the performance
\* C11: after a stop and a restart the tick counter is 0 until the first tick,
\* and the first tick after the restart is processed and presented as bar 1,
\* step 1: the clock loop has not failed on it, the bar can be read, and the
\* step computed from the counter read for that tick is 1.
C11_FirstTickAfterRestart ==
    /\ (runs = 2 /\ clock_running /\ tick_log.fired = -1) => step_counter = 0
    /\ (runs = 2 /\ tick_log.fired # -1 /\ step_counter = 1) =>
           /\ tpc # "crashed"
           /\ HasAttr("bar_count")
           /\ CurrentStep(BeatOf(step_counter), SubOf(step_counter)) = 1

C20_EvidenceCarriesFirstMaximum ==
    (step_call.status # "none" /\ step_call.events # <<>>) =>
        /\ step_call.status = "built"
        /\ \E i \in DOMAIN step_call.events :
               /\ \A j \in DOMAIN step_call.events :
                      step_call.events[j].velocity <= step_call.events[i].velocity
               /\ \A j \in 1..(i - 1) :
                      step_call.events[j].velocity < step_call.events[i].velocity
               /\ step_call.drum = step_call.events[i].drum
               /\ step_call.velocity = step_call.events[i].velocity

\* C21: a call of process_bayesian_step with an empty list of events builds
\* the evidence, with drum NONE and velocity 0 (the evidence on which the
\* engine decides a rest).
C21_EmptyBufferGivesRestEvidence ==
    (step_call.status # "none" /\ step_call.events = <<>>) =>
        /\ step_call.status = "built"
        /\ step_call.drum = "NONE"
        /\ step_call.velocity = 0

\* C29: a failure raised while a tick is processed ends the processing of that
\* tick only: the clock loop has not ended, and polls for the next tick.
C29_ClockLoopSurvivesFailedTick == tpc # "crashed"

DeclaredKeys == (1..4) \X {"NONE", "KICK", "SNARE", "RIM"} \X BOOLEAN \X (1..16)

\* C22: while _bake_logic runs the table holds keys of the declared domain
\* only, each with None or a bundle of distributions; once it has finished the
\* table holds every key of the domain, 512 keys, and no other key.
C22_TableTotalOnDeclaredDomain ==
    /\ DOMAIN lookup_table \subseteq DeclaredKeys
    /\ \A k \in DOMAIN lookup_table : lookup_table[k].kind \in {"None", "dists"}
    /\ Cardinality(DOMAIN lookup_table) = bake_i
    /\ bake_i = NumKeys =>
           /\ DOMAIN lookup_table = DeclaredKeys
           /\ Cardinality(DOMAIN lookup_table) = 512

\* The baking has finished, and the table holds both kinds of entries.
C22_Witness ==
    /\ bake_i = NumKeys
    /\ lookup_table[<<1, "NONE", FALSE, 1>>] = AbsentEntry
    /\ lookup_table[<<4, "RIM", TRUE, 16>>].kind = "dists"

\* C23: a query whose key lies outside the declared domain ends with an
\* error; it returns nothing.
C23_OutOfDomainQueryFails ==
    (query.status # "none" /\ query.call.key \notin DeclaredKeys) => query.status = "raised"

AllZero(w) == \A i \in 1..Len(w) : w[i] = 0

\* C24: a draw over stored weights that are all zero raises: a call that
\* returns a rest drew the play gate from weights not all zero, a call that
\* returns a playing decision drew all five categories from weights not all
\* zero, and a call that raises does so at a distribution whose weights are
\* all zero.
C24_ZeroWeightDrawRaises ==
    (query.status # "none" /\ query.call.dists.kind = "dists") =>
        LET d == query.call.dists
        IN  /\ AllZero(d.play) => (query.status = "raised" /\ query.at = "play")
            /\ (query.status = "returned" /\ query.should_play) =>
                   /\ ~AllZero(d.pitch) /\ ~AllZero(d.chord)
                   /\ ~AllZero(d.energy) /\ ~AllZero(d.channel)
            /\ query.status = "raised" =>
                   /\ query.error = "ValueError"
                   /\ AllZero(d[query.at])

\* The play gate was drawn true and the next draw, over all-zero weights, raised.
C24_Witness ==
    /\ query.status = "raised"
    /\ query.at = "pitch"
    /\ ~AllZero(query.call.dists.play)
    /\ AllZero(query.call.dists.pitch)

\* A rest decision: should_play false, and 0 for pitch, velocity, duration and channel.
IsRest(q) ==
    /\ ~q.should_play
    /\ q.midi_note = 0 /\ q.velocity = 0 /\ q.duration = 0 /\ q.channel = 0

\* C25: a query that fetched the absent sentinel returns a rest, and so does
\* one whose play gate was drawn false (every returned decision that is not
\* playing is a rest); the entry of the queried key is the sentinel exactly
\* when the play probability of the key is below 0.001; and every query with
\* drum NONE returns a rest.
C25_RestOnAbsentOrClosedGate ==
    query.status # "none" =>
        LET key == query.call.key
        IN  /\ query.call.dists = AbsentEntry => (query.status = "returned" /\ IsRest(query))
            /\ (query.status = "returned" /\ ~query.should_play) => IsRest(query)
            /\ query.call.held =>
                   (lookup_table[key] = AbsentEntry
                        <=> PlayPosterior(key[1], key[2], BeatTypeOf(key[4]))[2] * 1000 < 10000)
            /\ key[2] = "NONE" => (query.status = "returned" /\ IsRest(query))

\* The entry held distributions and the play gate was drawn false.
C25_Witness ==
    /\ query.status = "returned"
    /\ query.call.dists.kind = "dists"
    /\ query.debug_info = "Rest"
    /\ IsRest(query)

\* C26: the velocity of a playing decision is the input velocity times 1.2
\* when the sampled energy is HIGH, times 0.9 otherwise, truncated to an
\* integer and capped at 127; it lies in 0..127.
C26_VelocityScaledAndCapped ==
    (query.status = "returned" /\ query.should_play /\ query.call.data.velocity \in 0..127) =>
        LET v == query.call.data.velocity
            scaled == IF query.energy = "HIGH" THEN (12 * v) \div 10 ELSE (9 * v) \div 10
        IN  /\ query.velocity = IF scaled > 127 THEN 127 ELSE scaled
            /\ query.velocity \in 0..127

\* A playing decision of energy HIGH whose scaled velocity passed 127.
C26_Witness ==
    /\ query.status = "returned"
    /\ query.should_play
    /\ query.energy = "HIGH"
    /\ query.call.data.velocity = 120
    /\ query.velocity = 127

IndexOf(seq, x) == CHOOSE i \in 1..Len(seq) : seq[i] = x

\* The intervals a pitch function may add.
AllowedIntervals(func) ==
    IF func = "ROOT" THEN {0}
    ELSE IF func = "THIRD_FIFTH" THEN {4, 7}
    ELSE {2, 11, 14}

\* C27: the pitch of a playing decision is 60 + the root offset of the sampled
\* chord (I 0, IV 5, V 7, VI 9) + an interval of the sampled pitch function
\* + the transposition of the sampled channel (1: -24, 2: -12, 3: +24); the
\* chord and the pitch function are values the stored distributions give a
\* positive weight.
C27_PitchFromSampledChordAndFunction ==
    (query.status = "returned" /\ query.should_play) =>
        LET root == CASE query.chord = "I" -> 0 [] query.chord = "IV" -> 5
                      [] query.chord = "V" -> 7 [] query.chord = "VI" -> 9
            shift == CASE query.channel = 1 -> -24 [] query.channel = 2 -> -12
                       [] query.channel = 3 -> 24
        IN  /\ query.midi_note - 60 - root - shift \in AllowedIntervals(query.func)
            /\ query.call.dists.chord[IndexOf(ChordTypes, query.chord)] > 0
            /\ query.call.dists.pitch[IndexOf(PitchFuncs, query.func)] > 0

\* A playing decision on a chord other than the tonic, with a colour interval,
\* on a channel other than the first.
C27_Witness ==
    /\ query.status = "returned"
    /\ query.should_play
    /\ query.chord = "VI"
    /\ query.func = "COLOR"
    /\ query.channel = 3
    /\ query.midi_note = 60 + 9 + 14 + 24

\* The pitches of the tonic harmony on channel 1: 60, root offset 0, an
\* allowed interval, two octaves down.
TonicPitchesChannel1 == {60 + 0 + i - 24 : i \in {0, 4, 7, 2, 11, 14}}

\* C28: for the evidence KICK, velocity 100, bar 1, step 1 every playing
\* decision is on channel 1 and its pitch is one of the tonic harmony.
C28_KickDownbeatOnTonic ==
    (/\ query.status = "returned"
     /\ query.should_play
     /\ query.call.data = [drum_type |-> "KICK", velocity |-> 100, bar |-> 1, step |-> 1]) =>
        /\ query.channel = 1
        /\ query.midi_note \in TonicPitchesChannel1

C40_ChannelAndPitchInRange ==
    (query.status = "returned" /\ query.should_play) =>
        /\ query.channel \in 1..3
        /\ query.midi_note \in 36..107
        /\ query.midi_note \in 0..127
        /\ \A c \in 1..Len(ChordTypes), f \in 1..Len(PitchFuncs), ch \in 1..3, r \in RandomDraws :
               ResolvePitch(ChordTypes[c], PitchFuncs[f], ch, r) \in 36..107

\* The lowest pitch: the root of the tonic on channel 1.
C40_Witness ==
    /\ query.status = "returned"
    /\ query.should_play
    /\ query.channel = 1
    /\ query.midi_note = 36

\* ---------------------------------------------------------------- further claims on MidiScheduler
\* The note-on of call id at the sink carries the note and channel of m.
MatchesNoteOn(m) ==
    \E i \in NoteOns :
        /\ sent[i].msg.id = m.id
        /\ sent[i].msg.note = m.note
        /\ sent[i].msg.channel = m.channel
        /\ sent[i].by \in Callers

\* C37: every note-off at the sink or in the queue belongs to a play_note call
\* whose note-on is at the sink (ahead of it, for a dispatched one) with the
\* same note and the same channel, the channel of the call minus one; each
\* call has at most one note-off, and the note-offs at the sink and in the
\* queue are never more than the note-ons at the sink.
C37_NoteOffsMatchNoteOns ==
    /\ \A j \in NoteOffs :
           /\ MatchesNoteOn(sent[j].msg)
           /\ \E i \in NoteOns : i < j /\ sent[i].msg.id = sent[j].msg.id
    /\ \A k \in DOMAIN queue :
           /\ queue[k].msg.type = "note_off"
           /\ MatchesNoteOn(queue[k].msg)
    /\ \A i \in DOMAIN sent : sent[i].msg.channel \in {ch - 1 : ch \in Channels}
    /\ \A j \in NoteOffs, k \in DOMAIN queue : sent[j].msg.id # queue[k].msg.id
    /\ \A k, m \in DOMAIN queue : k # m => queue[k].msg.id # queue[m].msg.id
    /\ \A i, j \in NoteOffs : i # j => sent[i].msg.id # sent[j].msg.id
    /\ Cardinality(NoteOffs) + Len(queue) <= Cardinality(NoteOns)

\* Two note-ons at the sink, one note-off dispatched and the other queued.
C37_Witness ==
    /\ Cardinality(NoteOns) = 2
    /\ Cardinality(NoteOffs) = 1
    /\ Len(queue) = 1

\* C38: a play_note call that has passed the port test of line 28 sends its
\* note-on and does not fail: no call ends in the AttributeError that
\* None.send raises at line 36, whatever set_port does meanwhile.
C38_TestedPortReceivesNoteOn ==
    \A id \in DOMAIN calls : calls[id] # "attrerror"

\* ---------------------------------------------------------------- further claims on the input buffer
\* C34: an event appended in one run of the performance is never handed to a
\* tick of a later run: every event a tick copies out of the buffer was
\* appended during the run the tick belongs to.
C34_NoEventAcrossRestart ==
    [][(tpc = "poll" /\ tpc' = "clear")
           => \A i \in DOMAIN recent_events' : recent_events'[i].run = runs]_vars

\* ---------------------------------------------------------------- further claims on the performance
\* C35: while the performance is Stopped the clock is not polled: in a step
\* that begins and ends in Stopped the tick counter and the reference time
\* stay as they are and the clock loop does not move to its tick branch.
C35_NothingPolledWhileStopped ==
    [][(~clock_running /\ ~clock_running')
           => /\ step_counter' = step_counter
              /\ last_tick_time' = last_tick_time
              /\ (tpc' \in {"tick", "crashed"} => tpc' = tpc)]_vars

\* ---------------------------------------------------------------- the worker's wake-up
\* C32: a play_note call that puts an entry due before the deadline of the
\* worker's timed wait wakes the worker in the same step; the worker never
\* sleeps towards a deadline later than the due time of a queued entry, so
\* after the wake-up it waits for the new entry's due time, not for the old
\* one; and no call fails while the worker sleeps.
C32_EarlierEntryWakesWorker ==
    /\ [][(wpc = "timedwait" /\ Len(queue') > Len(queue)
             /\ \E k \in DOMAIN queue' : queue'[k].due < wlocal.deadline)
            => wpc' = "woken"]_vars
    /\ [](wpc = "timedwait" => \A k \in DOMAIN queue : wlocal.deadline <= queue[k].due)

\* The entry pushed second with the earlier due time was sent by the worker
\* at that due time, while the entry pushed first is still queued and not due.
C32_Witness ==
    \E j \in NoteOffs : \E k \in DOMAIN queue :
        /\ sent[j].by = "worker"
        /\ sent[j].msg.id > queue[k].msg.id
        /\ sent[j].due < queue[k].due
        /\ sent[j].at = sent[j].due
        /\ now < queue[k].due

\* ---------------------------------------------------------------- claims on the step of a tick
\* The step computed for the tick counter value c.
StepOf(c) == CurrentStep(BeatOf(c), SubOf(c))

\* C36: for every value of the tick counter the step computed for the
\* evidence is in 1..16, a step of the baked table's domain; it is the
\* counter modulo 16 plus 1, so it moves to the next step of the cycle with
\* every tick and repeats after 16 ticks.
C36_StepInCycleOfSixteen ==
    /\ [](step_call.status # "none" =>
              /\ step_call.step \in 1..16
              /\ \E i \in DOMAIN BakeSteps : BakeSteps[i] = step_call.step
              /\ step_call.beat \in 1..4 /\ step_call.sub \in 0..3
              /\ step_call.step = StepOf(step_counter)
              /\ step_call.step = (step_counter % 16) + 1)
    /\ [][step_call.status # "none" => step_call'.step = (step_call.step % 16) + 1]_vars
    /\ [](\A c \in 0..MaxCounter :
              /\ StepOf(c + 16) = StepOf(c)
              /\ \A k \in 1..15 : StepOf(c + k) # StepOf(c))

\* The seventeenth tick: the cycle has wrapped and the step is 2 again.
C36_Witness ==
    /\ step_call.status # "none"
    /\ step_counter = 17
    /\ step_call.step = 2

\* C33: the evidence of a tick is built, and it carries the step derived from
\* the counter value of that tick and a bar read for that tick.
C33_EvidenceOfOwnTick ==
    step_call.status # "none" =>
        /\ step_call.status = "built"
        /\ HasAttr("bar_count")
        /\ step_call.step = StepOf(step_counter)

\* ---------------------------------------------------------------- claims on the output port of the application
\* C39: no message is sent to a port that on_select_changed has closed: in
\* the step in which a play_note thread sends its note-on (it goes to sleep)
\* or its note-off (it ends), the port the attribute holds has not been closed.
C39_NothingSentToClosedPort ==
    [][\A i \in 1..Len(note_threads) :
           \/ (note_threads[i].pc = "test" /\ note_threads'[i].pc = "sleep")
           \/ (note_threads[i].pc = "sleep" /\ note_threads'[i].pc = "done")
           => ~port_closed]_vars
====
